---- MODULE Spec2Model ----
(***************************************************************************)
(* Model of server/src/controllers/perkController.js: the Joi schema       *)
(* perkSchema, the six request handlers, and the Perk collection they      *)
(* call.  A handler is split into atomic steps at its awaits on the store; *)
(* updatePerk is the only handler with two store calls (findById, save),   *)
(* so it is the only one that can be overtaken between its steps.          *)
(***************************************************************************)
EXTENDS Integers, Sequences, FiniteSets, TLC

VARIABLES store, nextId, now, inflight, res, call, acked

vars == <<store, nextId, now, inflight, res, call, acked>>

---------------------------------------------------------------------------
(* Bounds of the model *)

\* number of perks ever inserted (ids 1..MaxIds)
MaxIds == 2

\* updatePerk requests that may be between findById and save at once
MaxReqs == 1

\* keys of a request body
MaxKeys == 2

---------------------------------------------------------------------------
(* Values *)

FieldNames == {"title", "description", "category", "discountPercent", "merchant"}

\* keys a request body may carry: the schema's keys and one unknown key
BodyKeys == FieldNames \cup {"extra"}

\* a key of a JS object: {} when the key is absent, {v} when it holds v
Opt(S) == {{}} \cup {{v} : v \in S}

Present(o) == o # {}

ValueOf(o) == CHOOSE v \in o : TRUE

TitleInputs == {"a", "ab", "abc"}

DescriptionInputs == {"new"}

CategoryInputs == {"food", "bogus"}

\* a discountPercent of the JSON body: the number n, written as a number
\* or as a numeric string
DiscountInputs ==
  {[n |-> -1, text |-> FALSE], [n |-> 50, text |-> FALSE], [n |-> 50, text |-> TRUE],
   [n |-> 150, text |-> FALSE]}

MerchantInputs == {"m"}

ExtraInputs == {"x"}

AllBodies ==
  [title : Opt(TitleInputs), description : Opt(DescriptionInputs),
   category : Opt(CategoryInputs), discountPercent : Opt(DiscountInputs),
   merchant : Opt(MerchantInputs), extra : Opt(ExtraInputs)]

\* Object.keys(body)
Keys(b) == {k \in BodyKeys : Present(b[k])}

\* req.body: an object of at most MaxKeys keys
Bodies == {b \in AllBodies : Cardinality(Keys(b)) <= MaxKeys}

\* req.query.title
TitleQueries == Opt({"", "ab", "abc"})

\* req.params.id: a well-formed ObjectId (n names it), a string that is no
\* ObjectId, or no parameter at all
ObjectIds == {[kind |-> "objectid", n |-> i] : i \in 1..MaxIds}

MalformedId == [kind |-> "malformed", n |-> 0]

MissingId == [kind |-> "missing", n |-> 0]

RouteParams == ObjectIds \cup {MalformedId}

---------------------------------------------------------------------------
(* perkSchema *)

Categories == {"food", "tech", "travel", "fitness", "other"}

MinTitleLength == 2

MinDiscount == 0

MaxDiscount == 100

DefaultCategory == "other"

DefaultDiscount == 0

\* title: Joi.string().min(2).required().  An explicit required() is the
\* key's own presence flag; the `presence` preference of a validate call is
\* only the default for keys that carry no flag, so it does not relax it.
TitleErrors(b) ==
  IF ~Present(b.title) THEN <<"title.required">>
  ELSE IF Len(ValueOf(b.title)) < MinTitleLength THEN <<"title.min">>
  ELSE <<>>

\* category: Joi.string().valid(...)
CategoryErrors(b) ==
  IF Present(b.category) /\ ValueOf(b.category) \notin Categories
  THEN <<"category.only">> ELSE <<>>

\* Joi.number() under the default `convert`: a numeric string is cast to
\* its number, a number is kept
ToNumber(v) == v.n

DiscountErrorsNoMax(b) ==
  IF ~Present(b.discountPercent) THEN <<>>
  ELSE IF ToNumber(ValueOf(b.discountPercent)) < MinDiscount THEN <<"discountPercent.min">>
  ELSE <<>>

\* discountPercent: Joi.number().min(0).max(100)
DiscountErrors(b) ==
  IF ~Present(b.discountPercent) THEN <<>>
  ELSE IF ToNumber(ValueOf(b.discountPercent)) < MinDiscount THEN <<"discountPercent.min">>
  ELSE IF ToNumber(ValueOf(b.discountPercent)) > MaxDiscount THEN <<"discountPercent.max">>
  ELSE <<>>

\* a key the schema does not name: an error, unless stripUnknown drops it
UnknownErrors(b, stripUnknown) ==
  IF Present(b.extra) /\ ~stripUnknown THEN <<"extra.unknown">> ELSE <<>>

\* every error of the body, in the order Joi meets the keys: the schema's
\* keys in their order of declaration, then the unknown keys.  description
\* and merchant are Joi.string().allow(''): every text passes.
AllErrors(b, stripUnknown) ==
  TitleErrors(b) \o CategoryErrors(b) \o DiscountErrors(b)
    \o UnknownErrors(b, stripUnknown)

\* error.details: abortEarly stops at the first error
Errors(b, abortEarly, stripUnknown) ==
  LET all == AllErrors(b, stripUnknown)
  IN IF abortEarly /\ all # <<>> THEN <<Head(all)>> ELSE all

\* a schema that also declares default('') for description and merchant
ValueAllDefaults(b) ==
  [title |-> b.title,
   description |-> IF Present(b.description) THEN b.description ELSE {""},
   category |-> IF Present(b.category) THEN b.category ELSE {"other"},
   discountPercent |->
     IF Present(b.discountPercent) THEN {ToNumber(ValueOf(b.discountPercent))} ELSE {0},
   merchant |-> IF Present(b.merchant) THEN b.merchant ELSE {""}]

\* the validated value: the schema's keys of the body, discountPercent cast
\* to a number, with default('other') and default(0) filled in for an absent
\* category and discountPercent.
\* Defaults are applied in every validate call, whatever `presence` is;
\* description and merchant declare no default and stay absent.
Value(b) ==
  [title |-> b.title,
   description |-> b.description,
   category |-> IF Present(b.category) THEN b.category ELSE {DefaultCategory},
   discountPercent |->
     IF Present(b.discountPercent) THEN {ToNumber(ValueOf(b.discountPercent))}
     ELSE {DefaultDiscount},
   merchant |-> b.merchant]

\* perkSchema.validate(req.body) of createPerk: Joi's default preferences
ValidateCreate(b) == [error |-> Errors(b, TRUE, FALSE), value |-> Value(b)]

\* perkSchema.validate(req.body, {abortEarly: false, allowUnknown: false,
\* presence: 'optional', stripUnknown: true}) of updatePerk
ValidateUpdate(b) == [error |-> Errors(b, FALSE, TRUE), value |-> Value(b)]

---------------------------------------------------------------------------
(* The Perk collection (models/Perk.js and the document store behind it) *)

\* insert-one: the stored document, description and merchant defaulting
\* to the empty text
NewDoc(fields, id, t) ==
  [id |-> id,
   title |-> ValueOf(fields.title),
   description |-> IF Present(fields.description) THEN ValueOf(fields.description) ELSE "",
   category |-> ValueOf(fields.category),
   discountPercent |-> ValueOf(fields.discountPercent),
   merchant |-> IF Present(fields.merchant) THEN ValueOf(fields.merchant) ELSE "",
   createdAt |-> t]

\* the uniqueness constraint on (title, merchant): does doc collide with
\* another document of st
Duplicate(st, doc) ==
  \E i \in DOMAIN st :
    i # doc.id /\ st[i].title = doc.title /\ st[i].merchant = doc.merchant

Put(st, doc) == [i \in DOMAIN st \cup {doc.id} |-> IF i = doc.id THEN doc ELSE st[i]]

Remove(st, id) == [i \in DOMAIN st \ {id} |-> st[i]]

\* Perk.create(fields): E11000 on a duplicate key, else the inserted document
StoreCreate(st, fields, id, t) ==
  LET doc == NewDoc(fields, id, t)
  IN IF Duplicate(st, doc)
     THEN [err |-> "E11000", docs |-> <<>>, store |-> st]
     ELSE [err |-> "none", docs |-> <<doc>>, store |-> Put(st, doc)]

\* Perk.findById(id): CastError when id is no ObjectId, else the document
\* or null
StoreFindById(st, p) ==
  IF p.kind = "malformed" THEN [err |-> "CastError", docs |-> <<>>, store |-> st]
  ELSE IF p.n \in DOMAIN st THEN [err |-> "none", docs |-> <<st[p.n]>>, store |-> st]
  ELSE [err |-> "none", docs |-> <<>>, store |-> st]

\* Perk.findByIdAndDelete(id): one atomic find-and-remove
StoreFindByIdAndDelete(st, p) ==
  IF p.kind = "malformed" THEN [err |-> "CastError", docs |-> <<>>, store |-> st]
  ELSE IF p.n \in DOMAIN st
       THEN [err |-> "none", docs |-> <<st[p.n]>>, store |-> Remove(st, p.n)]
  ELSE [err |-> "none", docs |-> <<>>, store |-> st]

\* doc.save() of a document loaded earlier: one atomic update of the
\* modified paths of the stored document with that id; DocumentNotFound
\* when no document has the id any more, E11000 on a duplicate key
StoreSave(st, doc, modified) ==
  IF doc.id \notin DOMAIN st
  THEN [err |-> "DocumentNotFound", docs |-> <<>>, store |-> st]
  ELSE LET new == [f \in DOMAIN doc |-> IF f \in modified THEN doc[f] ELSE st[doc.id][f]]
       IN IF Duplicate(st, new)
          THEN [err |-> "E11000", docs |-> <<>>, store |-> st]
          ELSE [err |-> "none", docs |-> <<doc>>, store |-> Put(st, new)]

\* an insert-or-replace in place of save
StoreUpsert(st, doc, modified) ==
  IF Duplicate(st, doc)
  THEN [err |-> "E11000", docs |-> <<>>, store |-> st]
  ELSE [err |-> "none", docs |-> <<doc>>, store |-> Put(st, doc)]

\* the orders .sort({createdAt: -1}) may return the documents S in:
\* newest first
SortByCreatedAtDesc(S) ==
  {s \in [1..Cardinality(S) -> S] :
     /\ \A i, j \in 1..Cardinality(S) : i < j => s[i] # s[j]
     /\ \A i, j \in 1..Cardinality(S) : i < j => s[i].createdAt >= s[j].createdAt}

\* a query that matches the title as a substring
FindByTitleContaining(st, title) ==
  {st[i] : i \in {j \in DOMAIN st :
                    \E a, b \in {"", "a", "b", "c"} : a \o title \o b = st[j].title}}

\* Perk.find({title: title}): the documents whose title equals it
FindByTitle(st, title) == {st[i] : i \in {j \in DOMAIN st : st[j].title = title}}

\* Perk.find()
FindAll(st) == {st[i] : i \in DOMAIN st}

---------------------------------------------------------------------------
(* State *)

NoParam == [kind |-> "none", n |-> 0]

\* what the last step sent: the handler, the outcome (the status it set, or
\* "next" for an error forwarded with next(err), or "pending" when the step
\* ended at an await without responding), the id parameter, the validation
\* messages and the perks of the body
Response(op, outcome, id, details, perks) ==
  [op |-> op, outcome |-> outcome, id |-> id, details |-> details, perks |-> perks]

NoFields ==
  [title |-> {}, description |-> {}, category |-> {}, discountPercent |-> {},
   merchant |-> {}]

NoBody ==
  [title |-> {}, description |-> {}, category |-> {}, discountPercent |-> {},
   merchant |-> {}, extra |-> {}]

\* the call the last step made on the Perk model, with the field set handed
\* to it
Call(fn, fields) == [fn |-> fn, fields |-> fields, body |-> NoBody]

\* Perk.create({...value}), with the req.body the value was validated from
CreateCall(b, value) == [fn |-> "create", fields |-> value, body |-> b]

Reqs == 1..MaxReqs

Init ==
  /\ store = <<>>
  /\ nextId = 1
  /\ now = 0
  /\ inflight = [r \in Reqs |-> <<>>]
  /\ res = Response("none", "none", NoParam, <<>>, <<>>)
  /\ call = Call("none", NoFields)
  /\ acked = {}

---------------------------------------------------------------------------
(* filterPerks *)

\* `if (title)`: an absent parameter and the empty text are falsy
Truthy(q) == Present(q) /\ ValueOf(q) # ""

\* Perk.find({title: title}).sort({createdAt: -1})
FilterFind(st, title) == SortByCreatedAtDesc(FindByTitle(st, title))

filterPerks(q) ==
  /\ IF Truthy(q)
     THEN /\ \E perks \in FilterFind(store, ValueOf(q)) :
               res' = Response("filter", "ok", NoParam, <<>>, perks)
          /\ call' = Call("find", [NoFields EXCEPT !.title = q])
     ELSE /\ res' = Response("filter", "badRequest", NoParam,
                             <<"Title query parameter is required">>, <<>>)
          /\ call' = Call("none", NoFields)
  /\ UNCHANGED <<store, nextId, now, inflight, acked>>

---------------------------------------------------------------------------
(* getPerk *)

getPerk(p) ==
  /\ LET found == StoreFindById(store, p)
     IN res' = IF found.err # "none"
               THEN Response("get", "next", p, <<found.err>>, <<>>)
               ELSE IF found.docs = <<>>
               THEN Response("get", "notFound", p, <<"Perk not found">>, <<>>)
               ELSE Response("get", "ok", p, <<>>, found.docs)
  /\ call' = Call("findById", NoFields)
  /\ UNCHANGED <<store, nextId, now, inflight, acked>>

---------------------------------------------------------------------------
(* getAllPerks *)

getAllPerks ==
  /\ \E perks \in SortByCreatedAtDesc(FindAll(store)) :
       res' = Response("list", "ok", NoParam, <<>>, perks)
  /\ call' = Call("find", NoFields)
  /\ UNCHANGED <<store, nextId, now, inflight, acked>>

---------------------------------------------------------------------------
(* createPerk *)

CreateCatchForwardsAll(out) ==
  Response("create", "next", NoParam, <<out.err>>, <<>>)

\* the catch block: err.code === 11000 is answered 409, anything else is
\* forwarded
CreateCatch(out) ==
  IF out.err = "E11000"
  THEN Response("create", "conflict", NoParam,
                <<"Duplicate perk for this merchant">>, <<>>)
  ELSE Response("create", "next", NoParam, <<out.err>>, <<>>)

\* createdAt is the instant of the insert; the clock advances between two
\* inserts
createPerk(b) ==
  /\ nextId <= MaxIds
  /\ LET v == ValidateCreate(b)
     IN IF v.error # <<>>
        THEN /\ res' = Response("create", "badRequest", NoParam, v.error, <<>>)
             /\ call' = Call("none", NoFields)
             /\ UNCHANGED <<store, nextId, now>>
        ELSE LET t == now + 1
                 out == StoreCreate(store, v.value, nextId, t)
             IN   /\ call' = CreateCall(b, v.value)
                  /\ store' = out.store
                  /\ IF out.err = "none"
                     THEN /\ res' = Response("create", "created", NoParam, <<>>, out.docs)
                          /\ nextId' = nextId + 1
                          /\ now' = t
                     ELSE /\ res' = CreateCatch(out)
                          /\ UNCHANGED <<nextId, now>>
  /\ UNCHANGED <<inflight, acked>>

---------------------------------------------------------------------------
(* updatePerk *)

\* Object.assign(perk, value): every key of value overwrites the document's
Assign(doc, value) ==
  [f \in DOMAIN doc |->
     IF f \in FieldNames /\ Present(value[f]) THEN ValueOf(value[f]) ELSE doc[f]]

\* the paths the assignment marks modified: those given a value that
\* differs from the loaded one
Modified(doc, value) ==
  {f \in FieldNames : Present(value[f]) /\ ValueOf(value[f]) # doc[f]}

\* an updatePerk request suspended at `await perk.save()`
Pending(p, b, doc, value) ==
  [id |-> p, supplied |-> Keys(b), doc |-> Assign(doc, value),
   modified |-> Modified(doc, value)]

RejectedFallsThrough(infl, r, pending) == [infl EXCEPT ![r] = <<pending>>]

\* `return res.status(400)...` on a validation error: the request ends
\* there, nothing of it stays pending
Rejected(infl, r, pending) == infl

\* from the guards to Object.assign: the first step of updatePerk, which
\* ends with a response or suspended at the save
updatePerkFind(r, p, b) ==
  /\ inflight[r] = <<>>
  /\ IF p = MissingId
     THEN /\ res' = Response("update", "badRequest", p, <<"Missing id parameter">>, <<>>)
          /\ call' = Call("none", NoFields)
          /\ UNCHANGED inflight
     ELSE IF Keys(b) = {}
     THEN /\ res' = Response("update", "badRequest", p, <<"No update fields provided">>, <<>>)
          /\ call' = Call("none", NoFields)
          /\ UNCHANGED inflight
     ELSE LET found == StoreFindById(store, p)
              v == ValidateUpdate(b)
          IN /\ call' = Call("findById", NoFields)
             /\ IF found.err = "CastError"
                THEN /\ res' = Response("update", "badRequest", p, <<"Invalid id format">>, <<>>)
                     /\ UNCHANGED inflight
                ELSE IF found.docs = <<>>
                THEN /\ res' = Response("update", "notFound", p, <<"Perk not found">>, <<>>)
                     /\ UNCHANGED inflight
                ELSE IF v.error # <<>>
                THEN /\ res' = Response("update", "badRequest", p, v.error, <<>>)
                     /\ inflight' = Rejected(inflight, r, Pending(p, b, found.docs[1], v.value))
                ELSE /\ res' = Response("update", "pending", p, <<>>, <<>>)
                     /\ inflight' = [inflight EXCEPT
                          ![r] = <<Pending(p, b, found.docs[1], v.value)>>]
  /\ UNCHANGED <<store, nextId, now, acked>>

UpdatePersistUpsert(st, doc, modified) == StoreUpsert(st, doc, modified)

\* `await perk.save()`
UpdatePersist(st, doc, modified) == StoreSave(st, doc, modified)

\* the response after the save, and the catch block: CastError is answered
\* 400, anything else is forwarded
UpdateRespond(out, p) ==
  IF out.err = "none" THEN Response("update", "ok", p, <<>>, out.docs)
  ELSE IF out.err = "CastError"
  THEN Response("update", "badRequest", p, <<"Invalid id format">>, <<>>)
  ELSE Response("update", "next", p, <<out.err>>, <<>>)

\* the second step of updatePerk: the save and the response
updatePerkSave(r) ==
  /\ inflight[r] # <<>>
  /\ LET u == inflight[r][1]
         out == UpdatePersist(store, u.doc, u.modified)
     IN /\ store' = out.store
        /\ res' = UpdateRespond(out, u.id)
        /\ call' = Call("save", NoFields)
  /\ inflight' = [inflight EXCEPT ![r] = <<>>]
  /\ UNCHANGED <<nextId, now, acked>>

---------------------------------------------------------------------------
(* deletePerk *)

DeleteRespondUnchecked(out, p) ==
  IF out.err # "none" THEN Response("delete", "next", p, <<out.err>>, <<>>)
  ELSE Response("delete", "ok", p, <<>>, <<>>)

\* `if (!doc) return 404`, else {ok: true}; an error is forwarded
DeleteRespond(out, p) ==
  IF out.err # "none" THEN Response("delete", "next", p, <<out.err>>, <<>>)
  ELSE IF out.docs = <<>>
  THEN Response("delete", "notFound", p, <<"Perk not found">>, <<>>)
  ELSE Response("delete", "ok", p, <<>>, <<>>)

\* acked collects the ids whose delete was acknowledged with {ok: true}
deletePerk(p) ==
  /\ LET out == StoreFindByIdAndDelete(store, p)
     IN /\ store' = out.store
        /\ res' = DeleteRespond(out, p)
        /\ acked' = IF DeleteRespond(out, p).outcome = "ok" THEN acked \cup {p.n} ELSE acked
  /\ call' = Call("findByIdAndDelete", NoFields)
  /\ UNCHANGED <<nextId, now, inflight>>

---------------------------------------------------------------------------
(* The requests the server may be sent, in any order *)

Next ==
  \/ \E q \in TitleQueries : filterPerks(q)
  \/ \E p \in RouteParams : getPerk(p)
  \/ getAllPerks
  \/ \E b \in Bodies : createPerk(b)
  \/ \E r \in Reqs, p \in RouteParams \cup {MissingId}, b \in Bodies : updatePerkFind(r, p, b)
  \/ \E r \in Reqs : updatePerkSave(r)
  \/ \E p \in RouteParams : deletePerk(p)

Spec == Init /\ [][Next]_vars

\* the requests that write, alone: the reads change nothing a write reads
NextWrites ==
  \/ \E b \in Bodies : createPerk(b)
  \/ \E r \in Reqs, p \in RouteParams \cup {MissingId}, b \in Bodies : updatePerkFind(r, p, b)
  \/ \E r \in Reqs : updatePerkSave(r)
  \/ \E p \in RouteParams : deletePerk(p)

SpecWrites == Init /\ [][NextWrites]_vars

\* the handlers that make one call on the store: every request but update
NextSingleCall ==
  \/ \E q \in TitleQueries : filterPerks(q)
  \/ \E p \in RouteParams : getPerk(p)
  \/ getAllPerks
  \/ \E b \in Bodies : createPerk(b)
  \/ \E p \in RouteParams : deletePerk(p)

SpecSingleCall == Init /\ [][NextSingleCall]_vars

---------------------------------------------------------------------------
(* Properties *)

Range(s) == {s[i] : i \in 1..Len(s)}

\* the slot whose request the step s -> s' has ended
Ended(r) == inflight[r] # <<>> /\ inflight'[r] = <<>>

\* C1: every perk held in the store has discountPercent in [0,100] and a
\* category among food, tech, travel, fitness, other, whatever requests,
\* valid or invalid, were made.
C1_StoredPerksInRange ==
  \A i \in DOMAIN store :
    /\ store[i].discountPercent >= 0
    /\ store[i].discountPercent <= 100
    /\ store[i].category \in {"food", "tech", "travel", "fitness", "other"}

\* an update has been saved while a perk with a non-default category and
\* discount is held
C1_Witness ==
  /\ res.op = "update" /\ res.outcome = "ok"
  /\ \E i \in DOMAIN store : store[i].discountPercent = 50
  /\ \E i \in DOMAIN store : store[i].category = "food"

\* C2 (as claimed): a successful update leaves every field of the stored
\* perk that the request did not supply as it was.
C2_UpdateKeepsUnsuppliedFields ==
  [][\A r \in Reqs :
       (Ended(r) /\ res'.op = "update" /\ res'.outcome = "ok")
         => \A f \in FieldNames \ inflight[r][1].supplied :
              store'[res'.id.n][f] = store[res'.id.n][f]]_vars

\* C3: a create or update that ends with BadRequest leaves the store as it
\* was, and nothing of the request stays pending.
C3_BadRequestChangesNothing ==
  [][(res'.op \in {"create", "update"} /\ res'.outcome = "badRequest")
       => (store' = store /\ inflight' = inflight)]_vars

\* an update of an existing perk was refused for its discountPercent
C3_Witness ==
  /\ res.op = "update" /\ res.outcome = "badRequest"
  /\ "discountPercent.max" \in Range(res.details)
  /\ res.id.n \in DOMAIN store

\* C4 (as claimed): getById and delete with a malformed id end with
\* BadRequest.
C4_MalformedIdIsBadRequest ==
  (res.op \in {"get", "delete"} /\ res.id.kind = "malformed")
    => res.outcome = "badRequest"

UniqueKeys(st) ==
  \A i, j \in DOMAIN st :
    (st[i].title = st[j].title /\ st[i].merchant = st[j].merchant) => i = j

HandedMerchant(fields) == IF Present(fields.merchant) THEN ValueOf(fields.merchant) ELSE ""

\* C5: a valid create whose (title, merchant) a stored perk already has ends
\* with Conflict and persists nothing, one that ends created had no such
\* perk, and the store never holds two perks with the same (title, merchant).
C5_DuplicateCreateConflicts ==
  [][call'.fn = "create" =>
       LET dup == \E i \in DOMAIN store :
                    /\ store[i].title = ValueOf(call'.fields.title)
                    /\ store[i].merchant = HandedMerchant(call'.fields)
       IN /\ dup => (res'.outcome = "conflict" /\ store' = store)
          /\ ~dup => res'.outcome = "created"
          /\ UniqueKeys(store')]_vars

\* a second create with the (title, merchant) of a stored perk was refused
C5_Witness ==
  /\ res.op = "create" /\ res.outcome = "conflict"
  /\ \E i \in DOMAIN store :
       /\ store[i].title = ValueOf(call.fields.title)
       /\ store[i].merchant = HandedMerchant(call.fields)

C7_DeleteOnce ==
  [][(res'.op = "delete" /\ res'.id.kind = "objectid") =>
       IF res'.id.n \in DOMAIN store
       THEN /\ res'.outcome = "ok"
            /\ res'.id.n \notin acked
            /\ DOMAIN store' = DOMAIN store \ {res'.id.n}
            /\ \A i \in DOMAIN store' : store'[i] = store[i]
       ELSE /\ res'.outcome = "notFound"
            /\ store' = store]_vars

\* a delete for an id whose delete was acknowledged before ended NotFound
C7_Witness ==
  /\ res.op = "delete" /\ res.outcome = "notFound"
  /\ res.id.n \in acked

\* C8: filterByTitle with a non-empty title returns the stored perks whose
\* title equals it, each once, newest first; with the title omitted or empty
\* it ends with BadRequest and calls the store for nothing.
C8_FilterExact ==
  [][res'.op = "filter" =>
     \A q \in TitleQueries :
       filterPerks(q) =>
         IF q # {} /\ q # {""}
         THEN /\ res'.outcome = "ok"
              /\ Range(res'.perks) =
                   {store[i] : i \in {j \in DOMAIN store : {store[j].title} = q}}
              /\ \A i, j \in 1..Len(res'.perks) :
                   i < j => res'.perks[i].createdAt > res'.perks[j].createdAt
         ELSE /\ res'.outcome = "badRequest"
              /\ call'.fn = "none"]_vars

\* perks titled "ab" and "abc" are held, and a filter for "ab" returned
\* the first alone
C8_Witness ==
  /\ res.op = "filter" /\ res.outcome = "ok"
  /\ Len(res.perks) = 1
  /\ res.perks[1].title = "ab"
  /\ \E i \in DOMAIN store : store[i].title = "abc"

\* C9's case: every update that passes validation supplies title, so no two
\* successful updates supply disjoint sets of fields.
C9_EverySavedUpdateSuppliesTitle ==
  \A r \in Reqs : inflight[r] # <<>> => "title" \in inflight[r][1].supplied

\* C10: no perk whose delete was acknowledged is held by the store, and no
\* update of such a perk ends with success.
C10_DeletedStaysDeleted ==
  /\ \A n \in acked : n \notin DOMAIN store
  /\ (res.op = "update" /\ res.outcome = "ok") => res.id.n \notin acked

\* an update that found its perk before the delete saved it after
C10_Witness ==
  /\ res.op = "update" /\ res.outcome = "next"
  /\ res.details = <<"DocumentNotFound">>
  /\ res.id.n \in acked

====
